---- MODULE Spec2Model ----
(***************************************************************************)
(* ContainedContext: a nested Dear ImGui context rendered inside a child   *)
(* window of an outer context (src/unnamed/part_000).                      *)
(*                                                                         *)
(* Number representation.  A C++ float is modelled as a fixed-point        *)
(* integer counting 1/Unit; products and quotients round to the nearest    *)
(* representable value (RoundDiv), as IEEE arithmetic does.  A comparison  *)
(* of two floats is the comparison of the two integers.                    *)
(*                                                                         *)
(* Buffers.  An ImVector of the destination draw list is a "window": a     *)
(* count Lo of leading elements whose content the code never reads or      *)
(* writes, followed by a sequence of tracked elements, so that a draw list *)
(* holding tens of thousands of vertices is a small value.  Element i      *)
(* (0-based, as in the code) of a buffer is tracked when i >= Lo.          *)
(***************************************************************************)
EXTENDS Integers, Sequences, FiniteSets, TLC

VARIABLES
    current,   \* ImGui::GetCurrentContext(): id of the ambient current context
    ctx,       \* the live ImGuiContext objects: id -> context state
    dl,        \* ImGui::GetWindowDrawList() of the outer "view_port" child window
    frame,     \* what the host supplies during the present outer frame
    sess,      \* the ContainedContext objects: session -> member fields
    call       \* the free-function call under examination (pure-function checks)

vars == <<current, ctx, dl, frame, sess, call>>

-----------------------------------------------------------------------------
(* Bounds of the model *)

MaxVtx == 3        \* vertices of a source draw list
MaxCmd == 2        \* commands of a source draw list
MaxElem == 2       \* indices (ElemCount) of one command
MaxEvents == 2     \* events of an input-event trail

-----------------------------------------------------------------------------
(* Floats as fixed point *)

Unit == 1000

Abs(x) == IF x < 0 THEN -x ELSE x

Min(S) == CHOOSE x \in S : \A y \in S : x <= y

\* a / b rounded to the nearest integer, halves away from zero (b # 0)
RoundDiv(a, b) ==
    LET n == IF b < 0 THEN -a ELSE a
        d == Abs(b)
    IN  IF n >= 0 THEN (2 * n + d) \div (2 * d)
                  ELSE -((2 * (-n) + d) \div (2 * d))

FMul(a, b) == RoundDiv(a * b, Unit)    \* float a * b
FDiv(a, b) == RoundDiv(a * Unit, b)    \* float a / b, b # 0

-----------------------------------------------------------------------------
(* ImDrawList *)

\* ImDrawIdx is the 16-bit unsigned short of a default build
IdxRange == 65536
IdxTypeMax == IdxRange - 1

\* the content of a resize()d but not yet written ImDrawIdx slot
Uninit == -1

VtxSize(l) == l.VtxLo + Len(l.VtxBuffer)        \* VtxBuffer.Size
IdxSize(l) == l.IdxLo + Len(l.IdxBuffer)        \* IdxBuffer.Size
CmdSize(l) == Len(l.CmdBuffer)                  \* CmdBuffer.Size

VtxAt(l, i) == l.VtxBuffer[i - l.VtxLo + 1]     \* VtxBuffer[i], i >= VtxLo
IdxAt(l, i) == l.IdxBuffer[i - l.IdxLo + 1]     \* IdxBuffer[i], i >= IdxLo

\* pos * scale + origin, one component
Xform(p, scale, o) == FMul(p, scale) + o

\* the transform with the origin added before scaling
XformVertOriginFirst(v, origin, scale) ==
    [uv  |-> v.uv,
     col |-> v.col,
     pos |-> <<FMul(v.pos[1] + origin[1], scale), FMul(v.pos[2] + origin[2], scale)>>]

\* lines 73-75: uv and col copied, pos transformed
XformVert(v, origin, scale) ==
    [uv  |-> v.uv,
     col |-> v.col,
     pos |-> <<Xform(v.pos[1], scale, origin[1]), Xform(v.pos[2], scale, origin[2])>>]

\* the clip rectangle with only its first corner translated
XformClipMinOnly(c, origin, scale) ==
    <<Xform(c[1], scale, origin[1]), Xform(c[2], scale, origin[2]),
      FMul(c[3], scale), FMul(c[4], scale)>>

\* lines 102-105 and 142-145: the clip rectangle's two corners
XformClip(c, origin, scale) ==
    <<Xform(c[1], scale, origin[1]), Xform(c[2], scale, origin[2]),
      Xform(c[3], scale, origin[1]), Xform(c[4], scale, origin[2])>>

\* the vertex loop writing from VtxBuffer.Data instead of Data + vtx_start
ExtendBuffersFromZero(l, src, origin, scale) ==
    LET n == Len(l.VtxBuffer) + Len(src.VtxBuffer)
    IN  [l EXCEPT
           !.VtxBuffer = [i \in 1..n |->
                IF i <= Len(src.VtxBuffer) THEN XformVert(src.VtxBuffer[i], origin, scale)
                ELSE IF i <= Len(l.VtxBuffer) THEN l.VtxBuffer[i]
                ELSE [pos |-> <<0, 0>>, uv |-> <<0, 0>>, col |-> 0]],
           !.IdxBuffer = l.IdxBuffer \o [i \in 1..Len(src.IdxBuffer) |-> Uninit]]

\* lines 62-77: both buffers resized, the source vertices transformed into place;
\* the new index slots are not written yet
ExtendBuffers(l, src, origin, scale) ==
    [l EXCEPT
       !.VtxBuffer = l.VtxBuffer \o
            [i \in 1..Len(src.VtxBuffer) |-> XformVert(src.VtxBuffer[i], origin, scale)],
       !.IdxBuffer = l.IdxBuffer \o [i \in 1..Len(src.IdxBuffer) |-> Uninit]]

\* line 90: memcpy of the whole source index buffer to dst_idx_base
CopyIndices(l, src, idx_start) ==
    [l EXCEPT !.IdxBuffer =
        [j \in 1..Len(l.IdxBuffer) |->
            IF j - 1 + l.IdxLo >= idx_start
            THEN src.IdxBuffer[j - 1 + l.IdxLo - idx_start + 1]
            ELSE l.IdxBuffer[j]]]

\* the scan returning the segment's end, not its length
SegmentScanAbsolute(src, ci) ==
    LET off   == src.CmdBuffer[ci].VtxOffset
        later == {ni \in (ci + 1)..Len(src.CmdBuffer) : src.CmdBuffer[ni].VtxOffset > off}
    IN  IF later = {} THEN Len(src.VtxBuffer) ELSE src.CmdBuffer[Min(later)].VtxOffset

\* lines 113-120: the forward scan for the end of command ci's segment
\* (ci is 1-based here); the vertex count of that segment
SegmentScan(src, ci) ==
    LET off   == src.CmdBuffer[ci].VtxOffset
        later == {ni \in (ci + 1)..Len(src.CmdBuffer) : src.CmdBuffer[ni].VtxOffset > off}
        next_vtx_offset == IF later = {} THEN Len(src.VtxBuffer)
                           ELSE src.CmdBuffer[Min(later)].VtxOffset
    IN  next_vtx_offset - off

\* line 96-97: the cache before the first command; UINT_MAX is -1 here
NoCache == [off |-> -1, cnt |-> 0]

\* a cache that is filled once and never refreshed
CacheStepKeepFirst(src, ci, cache) ==
    IF cache = NoCache
    THEN [off |-> src.CmdBuffer[ci].VtxOffset, cnt |-> SegmentScan(src, ci)]
    ELSE cache

\* lines 111-121: the cache (cached_vtx_offset, cached_seg_vtx_count) after
\* command ci, from the cache before it
CacheStep(src, ci, cache) ==
    IF src.CmdBuffer[ci].VtxOffset # cache.off
    THEN [off |-> src.CmdBuffer[ci].VtxOffset, cnt |-> SegmentScan(src, ci)]
    ELSE cache

\* the cache after the first ci iterations of the loop of line 99
RECURSIVE CacheAt(_, _)
CacheAt(src, ci) ==
    IF ci = 0 THEN NoCache ELSE CacheStep(src, ci, CacheAt(src, ci - 1))

\* line 111: iteration ci runs the forward scan
Scans(src, ci) == src.CmdBuffer[ci].VtxOffset # CacheAt(src, ci - 1).off

\* the fix-up without the vertex base of the destination
FixupCmdNoVtxStart(cmd, origin, scale, vtx_start, idx_start) ==
    [cmd EXCEPT !.ClipRect  = XformClip(cmd.ClipRect, origin, scale),
                !.IdxOffset = cmd.IdxOffset + idx_start]

\* lines 100-128: one command of the capable path
FixupCmd(cmd, origin, scale, vtx_start, idx_start) ==
    [cmd EXCEPT !.ClipRect  = XformClip(cmd.ClipRect, origin, scale),
                !.VtxOffset = cmd.VtxOffset + vtx_start,
                !.IdxOffset = cmd.IdxOffset + idx_start]

\* lines 96-129: the command loop of the capable path from command ci on, with
\* the scan cache (cached_vtx_offset, cached_seg_vtx_count)
RECURSIVE CapableLoop(_, _, _, _, _, _, _, _)
CapableLoop(l, src, origin, scale, vtx_start, idx_start, ci, cache) ==
    IF ci > Len(src.CmdBuffer) THEN l
    ELSE
      LET cmd == src.CmdBuffer[ci]
          c2  == CacheStep(src, ci, cache)
          l2  == [l EXCEPT
                    !.VtxCurrentIdx = c2.cnt,
                    !.CmdBuffer = Append(l.CmdBuffer,
                                         FixupCmd(cmd, origin, scale, vtx_start, idx_start))]
      IN  CapableLoop(l2, src, origin, scale, vtx_start, idx_start, ci + 1, c2)

\* the legacy path copying the indices as they are
BakeIndicesNoBase(l, src, cmd, base, idx_start) ==
    [l EXCEPT !.IdxBuffer =
        [j \in 1..Len(l.IdxBuffer) |->
            LET k == j - 1 + l.IdxLo - idx_start
            IN  IF k >= cmd.IdxOffset /\ k < cmd.IdxOffset + cmd.ElemCount
                THEN src.IdxBuffer[k + 1]
                ELSE l.IdxBuffer[j]]]

\* lines 154-158: the indices of one command baked to absolute positions
BakeIndices(l, src, cmd, base, idx_start) ==
    [l EXCEPT !.IdxBuffer =
        [j \in 1..Len(l.IdxBuffer) |->
            LET k == j - 1 + l.IdxLo - idx_start    \* 0-based slot from dst_idx_base
            IN  IF k >= cmd.IdxOffset /\ k < cmd.IdxOffset + cmd.ElemCount
                THEN (src.IdxBuffer[k + 1] + base) % IdxRange
                ELSE l.IdxBuffer[j]]]

\* the range check without the destination's vertex count
FitsIdxRangeSourceOnly(base, n) == n - 1 <= IdxTypeMax

\* lines 149-152 with a 16-bit ImDrawIdx: the largest baked index fits
FitsIdxRange(base, n) == base + n - 1 <= IdxTypeMax

\* the legacy path taking every command as it comes
OffsetMismatchNever(cmd) == FALSE

\* line 139: the condition under which the IM_ASSERT fails
OffsetMismatch(cmd) == cmd.VtxOffset # 0

\* the counter of the legacy path counting the source's vertices only
LegacyCounterSegment(vtx_start, src) == Len(src.VtxBuffer)

\* line 165: the value given to _VtxCurrentIdx when the legacy loop is done
LegacyCounter(vtx_start, src) == vtx_start + Len(src.VtxBuffer)

\* lines 138-162: the command loop of the legacy path from command ci on; an
\* IM_ASSERT that fails ends the call there
RECURSIVE LegacyLoop(_, _, _, _, _, _, _)
LegacyLoop(l, src, origin, scale, vtx_start, idx_start, ci) ==
    IF ci > Len(src.CmdBuffer)
    THEN [dl |-> [l EXCEPT !.VtxCurrentIdx = LegacyCounter(vtx_start, src)],
          fatal |-> "none"]
    ELSE
      LET cmd  == src.CmdBuffer[ci]
          base == vtx_start + cmd.VtxOffset
      IN  IF OffsetMismatch(cmd) THEN [dl |-> l, fatal |-> "VtxOffset"]
          ELSE IF ~FitsIdxRange(base, Len(src.VtxBuffer))
          THEN [dl |-> l, fatal |-> "IdxRange"]
          ELSE
            LET l2 == BakeIndices(l, src, cmd, base, idx_start)
                l3 == [l2 EXCEPT !.CmdBuffer = Append(l2.CmdBuffer,
                          [cmd EXCEPT !.ClipRect  = XformClip(cmd.ClipRect, origin, scale),
                                      !.VtxOffset = 0,
                                      !.IdxOffset = cmd.IdxOffset + idx_start])]
            IN  LegacyLoop(l3, src, origin, scale, vtx_start, idx_start, ci + 1)

\* lines 170-171: both write cursors at the buffer ends
AdvanceWritePtrs(l) ==
    [l EXCEPT !.VtxWritePtr = VtxSize(l), !.IdxWritePtr = IdxSize(l)]

\* an append that never returns early
EarlyExitNever(src) == FALSE

\* lines 53-55
EarlyExit(src) == Len(src.VtxBuffer) = 0 \/ Len(src.CmdBuffer) = 0

\* lines 48-172.  hasVtxOffset is the RendererHasVtxOffset bit of the IO of the
\* context that is current during the call.  The result is the destination
\* list and the IM_ASSERT that stopped the call, if any.
AppendDrawData(l, src, origin, scale, hasVtxOffset) ==
    IF EarlyExit(src)
    THEN [dl |-> l, fatal |-> "none"]
    ELSE
      LET vtx_start == VtxSize(l)
          idx_start == IdxSize(l)
          ext == ExtendBuffers(l, src, origin, scale)
      IN  IF hasVtxOffset
          THEN [dl |-> AdvanceWritePtrs(
                          CapableLoop(CopyIndices(ext, src, idx_start), src, origin, scale,
                                      vtx_start, idx_start, 1, NoCache)),
                fatal |-> "none"]
          ELSE LET r == LegacyLoop(ext, src, origin, scale, vtx_start, idx_start, 1)
               IN  IF r.fatal = "none"
                   THEN [dl |-> AdvanceWritePtrs(r.dl), fatal |-> "none"]
                   ELSE r

-----------------------------------------------------------------------------
(* ImGuiContext *)

NullCtx == 0     \* nullptr
OuterCtx == 1    \* the host application's context

\* the remap without the test of the event type
RemapEventAnyType(e, origin, scale) ==
    [e EXCEPT !.PosX = FDiv(e.PosX - origin[1], scale),
              !.PosY = FDiv(e.PosY - origin[2], scale)]

\* lines 18-23: one event of the copied queue.  An ImGuiInputEvent is a tagged
\* union; PosX and PosY are its first two payload words, the pointer position
\* of a MousePos event and other data for every other type.
RemapEvent(e, origin, scale) ==
    IF e.Type = "MousePos"
    THEN [e EXCEPT !.PosX = FDiv(e.PosX - origin[1], scale),
                   !.PosY = FDiv(e.PosY - origin[2], scale)]
    ELSE e

\* the copy taken from the source's pending queue
CopyIOEventsFromQueue(src, dst, origin, scale) ==
    [dst EXCEPT
       !.PlatformImeData  = src.PlatformImeData,
       !.DeltaTime        = src.DeltaTime,
       !.InputEventsQueue = [i \in 1..Len(src.InputEventsQueue) |->
                                RemapEvent(src.InputEventsQueue[i], origin, scale)]]

\* lines 7-24.  Returns the destination context; the source is read only.
CopyIOEvents(src, dst, origin, scale) ==
    [dst EXCEPT
       !.PlatformImeData  = src.PlatformImeData,
       !.DeltaTime        = src.DeltaTime,
       !.InputEventsQueue = [i \in 1..Len(src.InputEventsTrail) |->
                                RemapEvent(src.InputEventsTrail[i], origin, scale)]]

\* a context as ImGui::CreateContext() leaves it
NewContext ==
    [HasVtxOffset     |-> FALSE,     \* IO.BackendFlags & RendererHasVtxOffset
     ConfigFlags      |-> 0,         \* IO.ConfigFlags
     TrickleEventQueue |-> TRUE,     \* IO.ConfigInputTrickleEventQueue
     Style            |-> 0,
     DisplaySize      |-> <<0, 0>>,  \* IO.DisplaySize
     MousePos         |-> <<0, 0>>,  \* IO.MousePos
     InputEventsQueue |-> <<>>,
     InputEventsTrail |-> <<>>,
     PlatformImeData  |-> 0,
     DeltaTime        |-> 0,         \* IO.DeltaTime
     Frame            |-> "none",    \* none, open (after NewFrame), rendered
     Windows          |-> 0,         \* Begin() calls not yet matched by End()
     DrawData         |-> <<>>]      \* the CmdLists of ImGui::GetDrawData()

-----------------------------------------------------------------------------
(* ContainedContext *)

Sessions == {1, 2}

NoCall == [op |-> "none"]
\* the outer frame: the sessions that called begin() in it; whether the last
\* end() saw the reset key; whether the user has stopped giving zoom input;
\* whether end() has been called for a session while another context than its
\* inner one was current
NoFrame == [begun |-> {}, reset |-> FALSE, quiet |-> FALSE, overlapped |-> FALSE]
NoSession == [pc |-> "unborn"]
\* a ContainedContext after its destructor
DeadSession == [pc |-> "dead"]

\* lines 174-187: the defaults of ContainedContextConfig (size, color and the
\* key and button codes do not reach any modelled state)
DefaultConfig ==
    [extra_window_wrapper |-> FALSE,
     zoom_enabled    |-> TRUE,
     zoom_min        |-> (3 * Unit) \div 10,
     zoom_max        |-> 2 * Unit,
     zoom_divisions  |-> 10 * Unit,
     zoom_smoothness |-> 5 * Unit,
     default_zoom    |-> Unit]

\* lines 205-218: a ContainedContext as constructed with configuration cfg;
\* pc is the position of the caller in begin()/end(), draw_data and i are the
\* locals of end(), vtx_reserved and idx_reserved the capacities end() asked
\* for at lines 312-313, begin_ctx remembers the context that was current when
\* begin() was last called, contexts_created counts the CreateContext() calls
\* the object has made
NewSession(cfg) ==
    [pc |-> "idle",
     m_config |-> cfg,
     m_origin |-> <<0, 0>>, m_pos |-> <<0, 0>>, m_size |-> <<0, 0>>,
     m_ctx |-> NullCtx, m_original_ctx |-> NullCtx,
     m_anyWindowHovered |-> FALSE, m_anyItemActive |-> FALSE, m_hovered |-> FALSE,
     m_scale |-> cfg.default_zoom, m_scaleTarget |-> cfg.default_zoom,
     m_scroll |-> <<0, 0>>,
     draw_data |-> <<>>, i |-> 0, vtx_reserved |-> 0, idx_reserved |-> 0,
     begin_ctx |-> NullCtx,
     contexts_created |-> 0]

VAdd(a, b) == <<a[1] + b[1], a[2] + b[2]>>      \* ImVec2 + ImVec2
VSub(a, b) == <<a[1] - b[1], a[2] - b[2]>>      \* ImVec2 - ImVec2
VDiv(a, f) == <<FDiv(a[1], f), FDiv(a[2], f)>>  \* ImVec2 / float

\* 0.015f of lines 339 and 345
SnapGap == (15 * Unit) \div 1000

\* the id ImGui::CreateContext() gives the next context
FreshCtx == CHOOSE c \in 2..(Cardinality(DOMAIN ctx) + 2) : c \notin DOMAIN ctx

\* ImGui::NewFrame() of an inner context with ConfigInputTrickleEventQueue off:
\* every queued event is processed and becomes the trail, the pointer position
\* is that of the last MousePos event
LastMousePos(q, old) ==
    LET ks == {k \in 1..Len(q) : q[k].Type = "MousePos"}
    IN  IF ks = {} THEN old
        ELSE LET k == CHOOSE m \in ks : \A n \in ks : n <= m
             IN  <<q[k].PosX, q[k].PosY>>

ImGuiNewFrame(c) ==
    [c EXCEPT !.InputEventsTrail = c.InputEventsQueue,
              !.InputEventsQueue = <<>>,
              !.MousePos = LastMousePos(c.InputEventsQueue, c.MousePos),
              !.Frame = "open",
              !.Windows = 0,
              !.DrawData = <<>>]

-----------------------------------------------------------------------------
(* Source draw lists: what ImGui::Render() of an inner context can hand over. *)
(* Every index of a command added to the command's VtxOffset is below the     *)
(* vertex count, and the commands tile the index buffer.                      *)

SrcVertices(n, seed) ==
    [i \in 1..n |-> [pos |-> <<(2 * i + seed) * (Unit \div 2), (seed - i) * Unit>>,
                     uv  |-> <<i % 2, seed>>,
                     col |-> 10 * seed + i]]

RECURSIVE SumTo(_, _)
SumTo(f, k) == IF k = 0 THEN 0 ELSE f[k] + SumTo(f, k - 1)

\* offs[k], cnts[k]: VtxOffset and ElemCount of command k; hi: whether the
\* indices are the largest or the smallest the command's segment allows
SrcList(n, seed, offs, cnts, hi) ==
    LET nc == Len(offs)
        cmdOf(j) == Min({k \in 1..nc : j <= SumTo(cnts, k)})
    IN  [VtxBuffer |-> SrcVertices(n, seed),
         IdxBuffer |-> [j \in 1..SumTo(cnts, nc) |->
                           IF hi /\ j % 2 = 1 THEN n - offs[cmdOf(j)] - 1 ELSE 0],
         CmdBuffer |-> [k \in 1..nc |->
                           [ClipRect  |-> <<0, -Unit, k * Unit, (k + seed) * Unit>>,
                            VtxOffset |-> offs[k],
                            IdxOffset |-> SumTo(cnts, k - 1),
                            ElemCount |-> cnts[k],
                            TexId     |-> k + seed]]]

SeqsUpTo(S, n) == UNION {[1..k -> S] : k \in 0..n}

\* two commands with 4 and 6 vertices: base offsets 0 and 4 over 10 vertices
ScenarioList ==
    [VtxBuffer |-> SrcVertices(10, 1),
     IdxBuffer |-> <<0, 1, 3, 0, 5, 2>>,
     CmdBuffer |-> <<[ClipRect |-> <<0, -Unit, Unit, 2 * Unit>>, VtxOffset |-> 0,
                      IdxOffset |-> 0, ElemCount |-> 3, TexId |-> 2],
                     [ClipRect |-> <<0, -Unit, 2 * Unit, 3 * Unit>>, VtxOffset |-> 4,
                      IdxOffset |-> 3, ElemCount |-> 3, TexId |-> 3]>>]

SrcLists ==
    { SrcList(n, seed, oc[1], oc[2], seed = 1) :
        n \in 0..MaxVtx, seed \in {0, 1},
        oc \in UNION {[1..k -> (0..MaxVtx)] \X [1..k -> (0..MaxElem)] : k \in 0..MaxCmd} }
    \cup {ScenarioList}

\* a source list is usable with n vertices when every command's segment
\* start is inside the vertex buffer
WellFormed(src) ==
    \A k \in 1..Len(src.CmdBuffer) :
        /\ src.CmdBuffer[k].VtxOffset <= Len(src.VtxBuffer)
        /\ src.CmdBuffer[k].ElemCount > 0 => src.CmdBuffer[k].VtxOffset < Len(src.VtxBuffer)
        /\ \A j \in 1..src.CmdBuffer[k].ElemCount :
              /\ src.IdxBuffer[src.CmdBuffer[k].IdxOffset + j] >= 0
              /\ src.IdxBuffer[src.CmdBuffer[k].IdxOffset + j] + src.CmdBuffer[k].VtxOffset
                    < Len(src.VtxBuffer)

\* the draw list of a window that has drawn nothing yet
EmptyDrawList ==
    [VtxLo |-> 0, VtxBuffer |-> <<>>, IdxLo |-> 0, IdxBuffer |-> <<>>, CmdBuffer |-> <<>>,
     VtxCurrentIdx |-> 0, VtxWritePtr |-> 0, IdxWritePtr |-> 0]

\* the draw list of the "view_port" child window right after BeginChild():
\* the ChildBg fill
ChildBackground ==
    [VtxLo |-> 0,
     VtxBuffer |-> <<[pos |-> <<0, 0>>, uv |-> <<0, 0>>, col |-> 7],
                     [pos |-> <<Unit, Unit>>, uv |-> <<1, 1>>, col |-> 7]>>,
     IdxLo |-> 0, IdxBuffer |-> <<0, 1, 1>>,
     CmdBuffer |-> <<[ClipRect |-> <<0, 0, Unit, Unit>>, VtxOffset |-> 0,
                      IdxOffset |-> 0, ElemCount |-> 3, TexId |-> 9]>>,
     VtxCurrentIdx |-> 2, VtxWritePtr |-> 2, IdxWritePtr |-> 3]

\* destination draw lists: empty; a window background (one command); and a
\* list that already holds almost as many vertices as ImDrawIdx can address
DstLists ==
    { EmptyDrawList,
      ChildBackground,
      [VtxLo |-> IdxRange - 3,
       VtxBuffer |-> <<[pos |-> <<Unit, 0>>, uv |-> <<0, 1>>, col |-> 8]>>,
       IdxLo |-> 2 * IdxRange, IdxBuffer |-> <<5>>,
       CmdBuffer |-> <<[ClipRect |-> <<0, 0, Unit, Unit>>, VtxOffset |-> 0,
                        IdxOffset |-> 0, ElemCount |-> 2 * IdxRange + 1, TexId |-> 9]>>,
       VtxCurrentIdx |-> IdxRange - 2, VtxWritePtr |-> IdxRange - 2,
       IdxWritePtr |-> 2 * IdxRange + 1] }

Origins == {<<0, 0>>, <<3 * Unit, -(Unit \div 2)>>}
Scales == {(3 * Unit) \div 10, 2 * Unit}

-----------------------------------------------------------------------------
(* AppendDrawData on its own: one call on an arbitrary destination *)

InitDraw ==
    /\ current = OuterCtx
    /\ \E f \in BOOLEAN : ctx = (OuterCtx :> [NewContext EXCEPT !.HasVtxOffset = f])
    /\ \E d \in DstLists : dl = [s \in Sessions |-> IF s = 1 THEN d ELSE EmptyDrawList]
    /\ frame = NoFrame
    /\ sess = [s \in Sessions |-> NoSession]
    /\ call = NoCall

CallAppendDrawData ==
    /\ call = NoCall
    /\ \E src \in SrcLists, origin \in Origins, scale \in Scales :
         /\ WellFormed(src)
         /\ LET r == AppendDrawData(dl[1], src, origin, scale, ctx[current].HasVtxOffset)
            IN  /\ dl' = [dl EXCEPT ![1] = r.dl]
                /\ call' = [op |-> "AppendDrawData", src |-> src, origin |-> origin,
                            scale |-> scale, pre |-> dl[1], fatal |-> r.fatal,
                            hasVtxOffset |-> ctx[current].HasVtxOffset]
    /\ UNCHANGED <<current, ctx, frame, sess>>

NextDraw == CallAppendDrawData

SpecDraw == InitDraw /\ [][NextDraw]_vars

-----------------------------------------------------------------------------
(* Properties of AppendDrawData (SpecDraw) *)

\* the call went past the early exit of lines 53-55
Appended ==
    /\ call.op = "AppendDrawData"
    /\ Len(call.src.VtxBuffer) > 0
    /\ Len(call.src.CmdBuffer) > 0

\* ... and no IM_ASSERT stopped it
AppendCompleted == Appended /\ call.fatal = "none"

\* C4: an append of a source list with V > 0 vertices, I indices and C > 0
\* commands that runs to completion grows the destination by exactly V
\* vertices, I indices and C commands, on either backend path, and every
\* vertex, index and command the destination held before is unchanged.
C4_SizeEffect ==
    AppendCompleted =>
        /\ VtxSize(dl[1]) = VtxSize(call.pre) + Len(call.src.VtxBuffer)
        /\ IdxSize(dl[1]) = IdxSize(call.pre) + Len(call.src.IdxBuffer)
        /\ CmdSize(dl[1]) = CmdSize(call.pre) + Len(call.src.CmdBuffer)
        /\ dl[1].VtxLo = call.pre.VtxLo
        /\ dl[1].IdxLo = call.pre.IdxLo
        /\ SubSeq(dl[1].VtxBuffer, 1, Len(call.pre.VtxBuffer)) = call.pre.VtxBuffer
        /\ SubSeq(dl[1].IdxBuffer, 1, Len(call.pre.IdxBuffer)) = call.pre.IdxBuffer
        /\ SubSeq(dl[1].CmdBuffer, 1, Len(call.pre.CmdBuffer)) = call.pre.CmdBuffer

C4_Witness ==
    /\ AppendCompleted
    /\ ~call.hasVtxOffset
    /\ Len(call.pre.VtxBuffer) > 0
    /\ Len(call.pre.CmdBuffer) > 0
    /\ Len(call.src.IdxBuffer) > 0
    /\ Len(call.src.CmdBuffer) > 1

\* the commands an append added to the destination
AppendedCmds == (CmdSize(call.pre) + 1)..CmdSize(dl[1])

\* C5: after a completed append of a well-formed source list into a
\* destination that held N vertices, every index an appended command
\* references, added to that command's effective base (its VtxOffset on a
\* capable backend, 0 on a legacy one), lies in [N, N + V).
C5_IndexContainment ==
    AppendCompleted =>
        \A k \in AppendedCmds :
            \A j \in 0..(dl[1].CmdBuffer[k].ElemCount - 1) :
                LET idx  == IdxAt(dl[1], dl[1].CmdBuffer[k].IdxOffset + j)
                    base == IF call.hasVtxOffset THEN dl[1].CmdBuffer[k].VtxOffset ELSE 0
                IN  /\ VtxSize(call.pre) <= idx + base
                    /\ idx + base < VtxSize(call.pre) + Len(call.src.VtxBuffer)

C5_Witness ==
    /\ AppendCompleted
    /\ call.hasVtxOffset
    /\ VtxSize(call.pre) > 0
    /\ \E k \in AppendedCmds :
          /\ dl[1].CmdBuffer[k].VtxOffset > VtxSize(call.pre)
          /\ dl[1].CmdBuffer[k].ElemCount > 0
          /\ IdxAt(dl[1], dl[1].CmdBuffer[k].IdxOffset) + dl[1].CmdBuffer[k].VtxOffset
                = VtxSize(call.pre) + Len(call.src.VtxBuffer) - 1

\* C6: source vertex i is destination vertex N + i after the append, with
\* position src.pos * scale + origin and the source's uv and col.
C6_VertexTransform ==
    Appended =>
        \A i \in 0..(Len(call.src.VtxBuffer) - 1) :
            LET s == call.src.VtxBuffer[i + 1]
                d == VtxAt(dl[1], VtxSize(call.pre) + i)
            IN  /\ d.pos[1] = RoundDiv(s.pos[1] * call.scale, Unit) + call.origin[1]
                /\ d.pos[2] = RoundDiv(s.pos[2] * call.scale, Unit) + call.origin[2]
                /\ d.uv = s.uv
                /\ d.col = s.col

C6_Witness ==
    /\ Appended
    /\ call.scale # Unit
    /\ call.origin # <<0, 0>>
    /\ Len(call.src.VtxBuffer) >= 2
    /\ VtxSize(call.pre) > 0
    /\ VtxAt(dl[1], VtxSize(call.pre)).pos # call.src.VtxBuffer[1].pos

\* the index slots and the commands an append has added so far
NewIdxSlots == (Len(call.pre.IdxBuffer) + 1)..Len(dl[1].IdxBuffer)
NewCmdCount == CmdSize(dl[1]) - CmdSize(call.pre)

\* the largest index the append would bake does not fit 16 bits
Overflows == VtxSize(call.pre) + Len(call.src.VtxBuffer) - 1 > IdxTypeMax

\* C11: an append past the early exit with N + V - 1 > 65535: on a legacy
\* backend it is stopped by an IM_ASSERT at its first command -- the range
\* check, when that command has VtxOffset 0 as every command a legacy backend
\* gets from ImGui has -- with no index of the source baked and no command
\* appended; on a capable backend it completes and no IM_ASSERT fails.
C11_OverflowCheck ==
    (Appended /\ Overflows) =>
        IF call.hasVtxOffset
        THEN /\ call.fatal = "none"
             /\ NewCmdCount = Len(call.src.CmdBuffer)
             /\ IdxSize(dl[1]) = IdxSize(call.pre) + Len(call.src.IdxBuffer)
        ELSE /\ call.fatal # "none"
             /\ call.src.CmdBuffer[1].VtxOffset = 0 => call.fatal = "IdxRange"
             /\ \A j \in NewIdxSlots : dl[1].IdxBuffer[j] = Uninit
             /\ NewCmdCount = 0

C11_Witness ==
    /\ Appended /\ Overflows
    /\ ~call.hasVtxOffset
    /\ call.fatal = "IdxRange"
    /\ Len(call.src.CmdBuffer) = 2
    /\ call.src.CmdBuffer[1].ElemCount > 0
    /\ NewIdxSlots # {}

\* the commands of the source with a vertex offset
OffsetCmds == {k \in 1..Len(call.src.CmdBuffer) : call.src.CmdBuffer[k].VtxOffset # 0}

\* C12: on a legacy backend, an append past the early exit of a source with a
\* command of VtxOffset # 0 is stopped by an IM_ASSERT; unless the range check
\* of C11 stops it first, it is the VtxOffset assertion, failing at the first
\* such command k with the k - 1 commands before it appended and command k
\* not.  A source whose commands all have VtxOffset 0 never fails that
\* assertion.
C12_CapabilityMismatch ==
    (Appended /\ ~call.hasVtxOffset) =>
        IF OffsetCmds = {}
        THEN call.fatal # "VtxOffset"
        ELSE /\ call.fatal # "none"
             /\ NewCmdCount < Min(OffsetCmds)
             /\ (~Overflows \/ Min(OffsetCmds) = 1) =>
                    /\ call.fatal = "VtxOffset"
                    /\ NewCmdCount = Min(OffsetCmds) - 1

C12_Witness ==
    /\ Appended /\ ~call.hasVtxOffset
    /\ call.fatal = "VtxOffset"
    /\ Min(OffsetCmds) = 2
    /\ NewCmdCount = 1
    /\ CmdSize(call.pre) > 0

\* C13: on a capable backend the k-th command an append adds is the k-th
\* source command -- element count and texture as they were, the commands in
\* the source's order -- with VtxOffset raised by the destination's vertex
\* count before the append, IdxOffset raised by its index count before the
\* append, and both corners of the clip rectangle scaled and translated; into
\* an empty destination both offsets are the source's.
C13_CommandFixup ==
    (AppendCompleted /\ call.hasVtxOffset) =>
        /\ NewCmdCount = Len(call.src.CmdBuffer)
        /\ \A k \in 1..Len(call.src.CmdBuffer) :
              LET s == call.src.CmdBuffer[k]
                  d == dl[1].CmdBuffer[CmdSize(call.pre) + k]
              IN  /\ d.ElemCount = s.ElemCount
                  /\ d.TexId = s.TexId
                  /\ d.VtxOffset = s.VtxOffset + VtxSize(call.pre)
                  /\ d.IdxOffset = s.IdxOffset + IdxSize(call.pre)
                  /\ \A c \in 1..4 :
                        d.ClipRect[c] = RoundDiv(s.ClipRect[c] * call.scale, Unit)
                                          + call.origin[2 - (c % 2)]
                  /\ (VtxSize(call.pre) = 0 /\ IdxSize(call.pre) = 0) =>
                        (d.VtxOffset = s.VtxOffset /\ d.IdxOffset = s.IdxOffset)

C13_Witness ==
    /\ AppendCompleted /\ call.hasVtxOffset
    /\ VtxSize(call.pre) > 0 /\ IdxSize(call.pre) > 0
    /\ call.origin # <<0, 0>>
    /\ Len(call.src.CmdBuffer) = 2
    /\ call.src.CmdBuffer[2].VtxOffset > 0
    /\ call.src.CmdBuffer[2].IdxOffset > 0
    /\ dl[1].CmdBuffer[CmdSize(dl[1])].ClipRect # call.src.CmdBuffer[2].ClipRect

\* C14: after an append on a capable backend the destination's _VtxCurrentIdx
\* is the vertex count of the last source command's segment, the source's
\* vertex count minus that command's VtxOffset, whatever the destination held
\* before; offsets 0 and 4 over 10 vertices give 6.
C14_VtxCurrentIdx ==
    (AppendCompleted /\ call.hasVtxOffset) =>
        /\ dl[1].VtxCurrentIdx =
              Len(call.src.VtxBuffer)
                - call.src.CmdBuffer[Len(call.src.CmdBuffer)].VtxOffset
        /\ call.src = ScenarioList => dl[1].VtxCurrentIdx = 6

\* the scenario appended to a destination of 65534 vertices
C14_Witness ==
    /\ AppendCompleted /\ call.hasVtxOffset
    /\ call.src = ScenarioList
    /\ VtxSize(call.pre) > IdxTypeMax - 10
    /\ dl[1].VtxCurrentIdx = 6
    /\ dl[1].CmdBuffer[CmdSize(dl[1])].VtxOffset = VtxSize(call.pre) + 4

\* C17: a call with a source that has no vertices or no commands leaves the
\* destination list as it was -- buffers, _VtxCurrentIdx, both write cursors
\* -- and fails no IM_ASSERT.
C17_EmptySourceNoOp ==
    (call.op = "AppendDrawData" /\ ~Appended) =>
        /\ dl[1] = call.pre
        /\ call.fatal = "none"

\* commands but no vertices, into a destination that holds something
C17_Witness ==
    /\ call.op = "AppendDrawData"
    /\ Len(call.src.VtxBuffer) = 0
    /\ Len(call.src.CmdBuffer) = 2
    /\ Len(call.pre.VtxBuffer) > 0
    /\ dl[1] = call.pre

\* C20: after a completed append the i-th of the I index slots added holds
\* the i-th source index as it is on a capable backend, and the i-th source
\* index plus the destination's vertex count before the append on a legacy
\* backend.
C20_IndexValues ==
    AppendCompleted =>
        /\ IdxSize(dl[1]) = IdxSize(call.pre) + Len(call.src.IdxBuffer)
        /\ \A i \in 0..(Len(call.src.IdxBuffer) - 1) :
              IdxAt(dl[1], IdxSize(call.pre) + i) =
                 call.src.IdxBuffer[i + 1]
                   + (IF call.hasVtxOffset THEN 0 ELSE VtxSize(call.pre))

\* a legacy append that bakes an index up to 65535
C20_Witness ==
    /\ AppendCompleted /\ ~call.hasVtxOffset
    /\ VtxSize(call.pre) > 2
    /\ \E i \in 0..(Len(call.src.IdxBuffer) - 1) :
          /\ call.src.IdxBuffer[i + 1] > 0
          /\ IdxAt(dl[1], IdxSize(call.pre) + i) = IdxTypeMax

\* C24: on a legacy backend with 16-bit indices, an append that runs to
\* completion (so that the range check of lines 149-152 passed for each of
\* its commands) leaves _VtxCurrentIdx equal to the vertex count before the
\* append plus the source's vertex count, and that value is below 65536, the
\* bound ImGui asserts on the counter.
C24_LegacyCounterBound ==
    (AppendCompleted /\ ~call.hasVtxOffset) =>
        /\ dl[1].VtxCurrentIdx = VtxSize(call.pre) + Len(call.src.VtxBuffer)
        /\ dl[1].VtxCurrentIdx < IdxRange

\* the commands of the source come in non-decreasing VtxOffset order
NonDecreasing(src) ==
    \A k \in 1..(Len(src.CmdBuffer) - 1) :
        src.CmdBuffer[k].VtxOffset <= src.CmdBuffer[k + 1].VtxOffset

\* C26: after an append that ran to completion, of a source whose commands
\* are in non-decreasing VtxOffset order, the VtxOffset of the destination's
\* last command plus _VtxCurrentIdx is the destination's vertex count, on the
\* capable and on the legacy path: the counter is the first free vertex slot
\* counted from the last command's base.
C26_CounterOffsetConsistency ==
    (AppendCompleted /\ NonDecreasing(call.src)) =>
        dl[1].CmdBuffer[CmdSize(dl[1])].VtxOffset + dl[1].VtxCurrentIdx = VtxSize(dl[1])

\* a legacy append of two commands to a list that held vertices already
C26_Witness ==
    /\ AppendCompleted /\ NonDecreasing(call.src)
    /\ ~call.hasVtxOffset
    /\ Len(call.src.CmdBuffer) = 2
    /\ VtxSize(call.pre) > 0
    /\ Len(call.src.VtxBuffer) = MaxVtx
    /\ dl[1].VtxCurrentIdx = VtxSize(call.pre) + MaxVtx

\* C28: on the capable path, for every command of the source the segment
\* vertex count the loop takes from its cache is the count the forward scan
\* gives when run afresh for that command; the scan is run only for the first
\* command of a run of consecutive commands with one VtxOffset; and the cached
\* count of the last command is what _VtxCurrentIdx ends as.
C28_ScanCacheEquivalence ==
    (AppendCompleted /\ call.hasVtxOffset) =>
        LET src == call.src
            n   == Len(src.CmdBuffer)
        IN  /\ \A ci \in 1..n :
                  /\ CacheAt(src, ci).cnt = SegmentScan(src, ci)
                  /\ CacheAt(src, ci).off = src.CmdBuffer[ci].VtxOffset
                  /\ Scans(src, ci) =>
                        \/ ci = 1
                        \/ src.CmdBuffer[ci - 1].VtxOffset # src.CmdBuffer[ci].VtxOffset
            /\ dl[1].VtxCurrentIdx = CacheAt(src, n).cnt

\* two commands share a vertex offset: the second takes its count from the
\* cache, without a scan
C28_Witness ==
    /\ AppendCompleted /\ call.hasVtxOffset
    /\ Len(call.src.CmdBuffer) = 2
    /\ call.src.CmdBuffer[1].VtxOffset = 1
    /\ call.src.CmdBuffer[2].VtxOffset = 1
    /\ Scans(call.src, 1) /\ ~Scans(call.src, 2)
    /\ dl[1].VtxCurrentIdx = Len(call.src.VtxBuffer) - 1

-----------------------------------------------------------------------------
(* CopyIOEvents on its own: one call on two arbitrary contexts (SpecIO) *)

InnerCtx == 2    \* the id of the destination context of SpecIO

Events ==
    { [Type |-> "MousePos",    PosX |-> 5 * Unit,  PosY |-> 2 * Unit, Source |-> 0],
      [Type |-> "MousePos",    PosX |-> -Unit,     PosY |-> 7 * (Unit \div 2), Source |-> 1],
      [Type |-> "MouseWheel",  PosX |-> 0,         PosY |-> Unit,     Source |-> 0],
      [Type |-> "MouseButton", PosX |-> 2,         PosY |-> 1,        Source |-> 0],
      [Type |-> "Key",         PosX |-> 564,       PosY |-> 1,        Source |-> 0] }

Trails == SeqsUpTo(Events, MaxEvents)

InitIO ==
    /\ current = OuterCtx
    /\ \E trail \in Trails, queue \in SeqsUpTo(Events, 1), old \in SeqsUpTo(Events, 1) :
         ctx = (OuterCtx :> [NewContext EXCEPT !.InputEventsTrail = trail,
                                               !.InputEventsQueue = queue,
                                               !.PlatformImeData = 1,
                                               !.DeltaTime = 16])
               @@ (InnerCtx :> [NewContext EXCEPT !.InputEventsQueue = old])
    /\ dl = [s \in Sessions |-> EmptyDrawList]
    /\ frame = NoFrame
    /\ sess = [s \in Sessions |-> NoSession]
    /\ call = NoCall

CallCopyIOEvents ==
    /\ call = NoCall
    /\ \E origin \in Origins, scale \in Scales :
         /\ ctx' = [ctx EXCEPT ![InnerCtx] =
                        CopyIOEvents(ctx[OuterCtx], ctx[InnerCtx], origin, scale)]
         /\ call' = [op |-> "CopyIOEvents", origin |-> origin, scale |-> scale, pre |-> ctx]
    /\ UNCHANGED <<current, dl, frame, sess>>

NextIO == CallCopyIOEvents

SpecIO == InitIO /\ [][NextIO]_vars

\* C7: after CopyIOEvents(outer, inner, origin, scale) the inner pending queue
\* holds, in order, one event per event of the outer trail: a pointer-position
\* event with its position replaced by (q - origin) / scale, every other event
\* identical to the original.
C7_InputRemap ==
    call.op = "CopyIOEvents" =>
        LET trail == call.pre[OuterCtx].InputEventsTrail
            queue == ctx[InnerCtx].InputEventsQueue
        IN  /\ Len(queue) = Len(trail)
            /\ \A i \in 1..Len(trail) :
                  IF trail[i].Type = "MousePos"
                  THEN /\ queue[i].Type = "MousePos"
                       /\ queue[i].Source = trail[i].Source
                       /\ queue[i].PosX =
                            RoundDiv((trail[i].PosX - call.origin[1]) * Unit, call.scale)
                       /\ queue[i].PosY =
                            RoundDiv((trail[i].PosY - call.origin[2]) * Unit, call.scale)
                  ELSE queue[i] = trail[i]

C7_Witness ==
    /\ call.op = "CopyIOEvents"
    /\ call.origin # <<0, 0>>
    /\ Len(ctx[InnerCtx].InputEventsQueue) = 2
    /\ call.pre[OuterCtx].InputEventsTrail[1].Type = "MousePos"
    /\ ctx[InnerCtx].InputEventsQueue[1].PosX # call.pre[OuterCtx].InputEventsTrail[1].PosX
    /\ ctx[InnerCtx].InputEventsQueue[2].Type = "Key"

-----------------------------------------------------------------------------
(* ContainedContext::begin and ContainedContext::end *)

\* a begin() that takes the host's context for the one to come back to
SavedContextOuter == OuterCtx

\* line 250: ImGui::GetCurrentContext()
SavedContext == current

\* a begin() that creates a context every time
NeedsContextAlways(S) == TRUE

\* line 252: if (!m_ctx)
NeedsContext(S) == S.m_ctx = NullCtx

\* lines 237-286.  lay is the layout the outer context reports for the child
\* window: GetWindowPos, GetContentRegionAvail, GetCursorScreenPos.
begin(s, lay) ==
    LET S       == sess[s]
        orig    == SavedContext
        created == NeedsContext(S)
        inner   == IF created THEN FreshCtx ELSE S.m_ctx
        c0 == IF created THEN NewContext ELSE ctx[inner]
        c1 == [c0 EXCEPT !.Style = ctx[orig].Style]
        c2 == CopyIOEvents(ctx[orig], c1, lay.origin, S.m_scale)
        c3 == [c2 EXCEPT !.DisplaySize = VDiv(lay.size, S.m_scale),
                         !.TrickleEventQueue = FALSE,
                         !.ConfigFlags  = ctx[orig].ConfigFlags,
                         !.HasVtxOffset = ctx[orig].HasVtxOffset]
        c4 == ImGuiNewFrame(c3)
        c5 == IF S.m_config.extra_window_wrapper THEN [c4 EXCEPT !.Windows = 1] ELSE c4
    IN  /\ S.pc = "idle"
        /\ sess' = [sess EXCEPT ![s] =
              [S EXCEPT !.pc = "active",
                        !.m_pos = lay.pos, !.m_size = lay.size, !.m_origin = lay.origin,
                        !.m_original_ctx = orig,
                        !.m_ctx = inner,
                        !.begin_ctx = current,
                        !.contexts_created = IF created THEN @ + 1 ELSE @]]
        /\ ctx' = IF created THEN ctx @@ (inner :> c5) ELSE [ctx EXCEPT ![inner] = c5]
        /\ current' = inner
        /\ dl' = [dl EXCEPT ![s] = ChildBackground]
        /\ frame' = [frame EXCEPT !.begun = @ \cup {s}]
        /\ UNCHANGED call

\* lines 290-301.  r is what the inner frame holds when end() is called: the
\* hover and active-item state and the draw lists the caller's widgets made.
\* ImGui::End() and ImGui::Render() act on the current context.
end_Render(s, r) ==
    LET S == sess[s]
        wrapper == S.m_config.extra_window_wrapper
    IN  /\ S.pc = "active"
        /\ sess' = [sess EXCEPT ![s] =
              [S EXCEPT !.pc = "rendered",
                        !.m_anyWindowHovered =
                            IF wrapper /\ r.windowHovered THEN FALSE ELSE r.anyWindowHovered,
                        !.m_anyItemActive = r.anyItemActive,
                        !.draw_data = r.lists]]
        /\ ctx' = [ctx EXCEPT ![current] =
              [@ EXCEPT !.Windows = IF wrapper THEN @ - 1 ELSE @,
                        !.Frame = "rendered",
                        !.DrawData = r.lists,
                        !.PlatformImeData = r.ime]]
        /\ frame' = [frame EXCEPT !.overlapped = @ \/ current # S.m_ctx]
        /\ UNCHANGED <<current, dl, call>>

\* ImDrawData::TotalVtxCount and TotalIdxCount as ImGui::Render() leaves
\* them: the sums over the CmdLists
RECURSIVE TotalVtxCount(_)
TotalVtxCount(dd) ==
    IF dd = <<>> THEN 0 ELSE Len(Head(dd).VtxBuffer) + TotalVtxCount(Tail(dd))

RECURSIVE TotalIdxCount(_)
TotalIdxCount(dd) ==
    IF dd = <<>> THEN 0 ELSE Len(Head(dd).IdxBuffer) + TotalIdxCount(Tail(dd))

\* a reserve() for the inner totals alone
ReservedTotalOnly(size, total) == total

\* lines 312-313: the argument of reserve(); the capacity is at least that
Reserved(size, total) == size + total

\* an end() that leaves the saved pointer as it is
SavedAfterEndKept(S) == S.m_original_ctx

\* line 305: m_original_ctx after end()
SavedAfterEnd(S) == NullCtx

\* end() leaving the inner context current
RestoredContextInner(S) == S.m_ctx

\* line 304: the context end() makes current
RestoredContext(S) == S.m_original_ctx

\* lines 303-314 without the SetCurrentContext call
end_RestoreNoSwitch(s) ==
    LET S == sess[s]
    IN  /\ S.pc = "rendered"
        /\ ctx' = [ctx EXCEPT ![S.m_original_ctx].PlatformImeData =
                                  ctx[S.m_ctx].PlatformImeData]
        /\ sess' = [sess EXCEPT ![s] =
              [S EXCEPT !.pc = "append", !.m_original_ctx = SavedAfterEnd(S), !.i = 0,
                        !.vtx_reserved = Reserved(VtxSize(dl[s]), TotalVtxCount(S.draw_data)),
                        !.idx_reserved = Reserved(IdxSize(dl[s]), TotalIdxCount(S.draw_data))]]
        /\ UNCHANGED <<current, dl, frame, call>>

\* lines 303-314: the IME state handed back, the saved context made current,
\* the saved pointer cleared, the capacity of the window's draw list reserved
end_Restore(s) ==
    LET S == sess[s]
    IN  /\ S.pc = "rendered"
        /\ ctx' = [ctx EXCEPT ![S.m_original_ctx].PlatformImeData =
                                  ctx[S.m_ctx].PlatformImeData]
        /\ current' = RestoredContext(S)
        /\ sess' = [sess EXCEPT ![s] =
              [S EXCEPT !.pc = "append", !.m_original_ctx = SavedAfterEnd(S), !.i = 0,
                        !.vtx_reserved = Reserved(VtxSize(dl[s]), TotalVtxCount(S.draw_data)),
                        !.idx_reserved = Reserved(IdxSize(dl[s]), TotalIdxCount(S.draw_data))]]
        /\ UNCHANGED <<dl, frame, call>>

\* lines 318-319: one iteration of the loop over draw_data->CmdLists; the
\* backend flag is that of the context current at the call (line 57)
end_Append(s) ==
    LET S == sess[s]
    IN  /\ S.pc = "append"
        /\ S.i < Len(S.draw_data)
        /\ LET r == AppendDrawData(dl[s], S.draw_data[S.i + 1], S.m_origin, S.m_scale,
                                   ctx[current].HasVtxOffset)
           IN  /\ dl' = [dl EXCEPT ![s] = r.dl]
               /\ sess' = [sess EXCEPT ![s] =
                    [S EXCEPT !.i = S.i + 1,
                              !.pc = IF r.fatal = "none" THEN "append" ELSE "aborted"]]
        /\ UNCHANGED <<current, ctx, frame, call>>

\* lines 327-328
ClampTarget(S, t) ==
    LET lo == IF t < S.m_config.zoom_min THEN S.m_config.zoom_min ELSE t
    IN  IF lo > S.m_config.zoom_max THEN S.m_config.zoom_max ELSE lo

\* ImGui::GetMousePos() - m_pos
Anchor(S, inp) == VSub(inp.MousePos, S.m_pos)

\* the scroll correction that keeps the point under the pointer fixed when the
\* scale goes from a to b (lines 332, 342, 347)
AnchorShift(S, inp, a, b) == VSub(VDiv(Anchor(S, inp), b), VDiv(Anchor(S, inp), a))

\* the wheel taken whether or not the viewport is hovered
WheelAppliesUnhovered(S, inp) == S.m_config.zoom_enabled /\ inp.MouseWheel # 0

\* line 324: the condition of the zoom branch (m_hovered is that of line 321)
WheelApplies(S, inp) == S.m_config.zoom_enabled /\ S.m_hovered /\ inp.MouseWheel # 0

\* the wheel moving the target only, whatever the smoothness
WheelStepTargetOnly(S, inp) ==
    IF S.m_config.zoom_enabled /\ S.m_hovered /\ inp.MouseWheel # 0
    THEN [S EXCEPT !.m_scaleTarget =
             ClampTarget(S, S.m_scaleTarget + FDiv(inp.MouseWheel, S.m_config.zoom_divisions))]
    ELSE S

\* lines 324-335
WheelStep(S, inp) ==
    IF WheelApplies(S, inp)
    THEN LET tg == ClampTarget(S, S.m_scaleTarget
                                   + FDiv(inp.MouseWheel, S.m_config.zoom_divisions))
         IN  IF S.m_config.zoom_smoothness = 0
             THEN [S EXCEPT !.m_scaleTarget = tg,
                            !.m_scroll = VAdd(S.m_scroll, AnchorShift(S, inp, S.m_scale, tg)),
                            !.m_scale = tg]
             ELSE [S EXCEPT !.m_scaleTarget = tg]
    ELSE S

\* 0.015f / m_config.zoom_smoothness
SnapThreshold(S) == FDiv(SnapGap, S.m_config.zoom_smoothness)

\* lines 338-350
SmoothStep(S, inp) ==
    IF /\ S.m_config.zoom_smoothness > 0
       /\ Abs(S.m_scaleTarget - S.m_scale) >= SnapThreshold(S)
    THEN LET cs  == FDiv(S.m_scaleTarget - S.m_scale, S.m_config.zoom_smoothness)
             sc  == S.m_scale + cs
             scr == VAdd(S.m_scroll, AnchorShift(S, inp, S.m_scale, S.m_scale + cs))
         IN  IF Abs(S.m_scaleTarget - sc) < SnapThreshold(S)
             THEN [S EXCEPT !.m_scroll = VAdd(scr, AnchorShift(S, inp, sc, S.m_scaleTarget)),
                            !.m_scale = S.m_scaleTarget]
             ELSE [S EXCEPT !.m_scroll = scr, !.m_scale = sc]
    ELSE S

\* lines 353-354
ResetStep(S, inp) ==
    IF inp.resetPressed THEN [S EXCEPT !.m_scaleTarget = S.m_config.default_zoom] ELSE S

\* the drag moving the content by the pointer's delta in screen units
DragStepNoScale(S, inp) ==
    IF S.m_hovered /\ ~S.m_anyItemActive /\ inp.dragging
    THEN [S EXCEPT !.m_scroll = VAdd(S.m_scroll, inp.MouseDelta)]
    ELSE S

\* lines 357-360
DragStep(S, inp) ==
    IF S.m_hovered /\ ~S.m_anyItemActive /\ inp.dragging
    THEN [S EXCEPT !.m_scroll = VAdd(S.m_scroll, VDiv(inp.MouseDelta, S.m_scale))]
    ELSE S

\* lines 321-360: the hovered flag, then the zoom / pan control loop
ZoomPan(S, inp) ==
    LET H == [S EXCEPT !.m_hovered = inp.childHovered /\ ~S.m_anyWindowHovered]
    IN  DragStep(ResetStep(SmoothStep(WheelStep(H, inp), inp), inp), inp)

\* the pointer handed over at the scale end() was entered with
PointerScaleBefore(S, Z) == S.m_scale

\* line 364: m_scale as read there, S being the viewport when the zoom steps
\* start and Z the viewport they leave
PointerScale(S, Z) == Z.m_scale

\* lines 321-366, entered when the loop over the command lists is done.  inp
\* is what the current (outer) context reports: IsWindowHovered(ChildWindows),
\* IO.MouseWheel, GetMousePos, IO.MouseDelta, IsKeyPressed(reset_zoom_key),
\* IsMouseDragging(scroll_button).
end_Zoom(s, inp) ==
    LET S == sess[s]
        Z == ZoomPan(S, inp)
    IN  /\ S.pc = "append"
        /\ S.i = Len(S.draw_data)
        /\ sess' = [sess EXCEPT ![s] = [Z EXCEPT !.pc = "idle", !.draw_data = <<>>, !.i = 0,
                                                   !.vtx_reserved = 0, !.idx_reserved = 0]]
        /\ ctx' = [ctx EXCEPT ![S.m_ctx].MousePos =
                        VDiv(VSub(inp.MousePos, S.m_origin), PointerScale(S, Z))]
        /\ frame' = [frame EXCEPT !.reset = inp.resetPressed]
        /\ UNCHANGED <<current, dl, call>>

\* lines 221-224: the destructor, run for a viewport that is outside
\* begin()/end(); ImGui::DestroyContext() ends the context's existence
destroy(s) ==
    LET S == sess[s]
    IN  /\ S.pc = "idle"
        /\ ctx' = IF S.m_ctx # NullCtx
                  THEN [c \in DOMAIN ctx \ {S.m_ctx} |-> ctx[c]]
                  ELSE ctx
        /\ sess' = [sess EXCEPT ![s] = DeadSession]
        /\ UNCHANGED <<current, dl, frame, call>>

\* The host: ImGui::NewFrame() of the outer context between two uses of the
\* sessions.  The events it processed become the outer trail, and the windows'
\* draw lists start empty.
NewFrame(trail) ==
    /\ \A s \in Sessions : sess[s].pc \in {"unborn", "idle", "dead"}
    /\ frame.begun # {}
    /\ ctx' = [ctx EXCEPT ![OuterCtx].InputEventsTrail = trail]
    /\ dl' = [s \in Sessions |-> EmptyDrawList]
    /\ frame' = [frame EXCEPT !.begun = {}]
    /\ UNCHANGED <<current, sess, call>>

\* The caller's discipline (spec section 5): a single thread, so nothing runs
\* while a session is inside end(); one begin() per session and outer frame.
InsideEnd(s) == sess[s].pc \in {"rendered", "append", "aborted"}
MayBegin(s) == s \notin frame.begun /\ \A t \in Sessions : ~InsideEnd(t)
\* end() called for any session that has begun, whichever context is current
MayEndAnywhere(s) == sess[s].pc = "active" /\ \A t \in Sessions : ~InsideEnd(t)
MayDestroy(s) == \A t \in Sessions : ~InsideEnd(t)
\* end() is called for the session whose inner context is current
MayEnd(s) ==
    /\ sess[s].pc = "active"
    /\ current = sess[s].m_ctx
    /\ \A t \in Sessions : ~InsideEnd(t)


\* no wheel movement, no reset key
Quiet(inp) == inp.MouseWheel = 0 /\ ~inp.resetPressed
MayZoom(inp) == frame.quiet => Quiet(inp)

\* The user stops: after an end() that saw the reset key, no wheel movement
\* and no key press follow.
InputsCease ==
    /\ frame.reset /\ ~frame.quiet
    /\ \A s \in Sessions : sess[s].pc \in {"unborn", "idle", "dead"}
    /\ frame' = [frame EXCEPT !.quiet = TRUE]
    /\ UNCHANGED <<current, ctx, dl, sess, call>>

\* the host's context inside a frame
HostContext(flag, trail) ==
    [NewContext EXCEPT !.HasVtxOffset = flag, !.Style = 1, !.Frame = "open",
                       !.PlatformImeData = 1, !.DeltaTime = 16,
                       !.InputEventsTrail = trail]

-----------------------------------------------------------------------------
(* SpecZoom: one viewport, used frame after frame, under every zoom input *)

ZoomSmoothness == {0, (8 * Unit) \div 10, 5 * Unit}

\* the pointer rests on the viewport's corner, so the anchor is zero
ZoomLayout == [pos |-> <<0, 0>>, origin |-> <<0, 0>>, size |-> <<4 * Unit, 4 * Unit>>]

ZoomRender ==
    [windowHovered |-> FALSE, anyWindowHovered |-> FALSE, anyItemActive |-> FALSE,
     ime |-> 1, lists |-> <<SrcList(2, 1, <<0>>, <<3>>, FALSE)>>]

ZoomInputs ==
    { [childHovered |-> h, MouseWheel |-> w, resetPressed |-> k,
       MousePos |-> <<0, 0>>, MouseDelta |-> <<0, 0>>, dragging |-> FALSE] :
         h \in BOOLEAN, w \in {-Unit, 0, Unit}, k \in BOOLEAN }

InitZoom ==
    /\ current = OuterCtx
    /\ ctx = (OuterCtx :> HostContext(TRUE, <<>>))
    /\ dl = [s \in Sessions |-> EmptyDrawList]
    /\ frame = NoFrame
    /\ \E z \in ZoomSmoothness, e \in BOOLEAN :
          sess = [s \in Sessions |->
                    IF s = 1 THEN NewSession([DefaultConfig EXCEPT !.zoom_smoothness = z,
                                                                   !.zoom_enabled = e])
                    ELSE NoSession]
    /\ call = NoCall

NextZoom ==
    \/ NewFrame(<<>>)
    \/ InputsCease
    \/ \E s \in Sessions : MayBegin(s) /\ begin(s, ZoomLayout)
    \/ \E s \in Sessions : MayEnd(s) /\ end_Render(s, ZoomRender)
    \/ \E s \in Sessions : end_Restore(s)
    \/ \E s \in Sessions : end_Append(s)
    \/ \E s \in Sessions : \E inp \in ZoomInputs : MayZoom(inp) /\ end_Zoom(s, inp)

\* the host's loop runs frame after frame
SpecZoom == InitZoom /\ [][NextZoom]_vars /\ WF_vars(NextZoom)

-----------------------------------------------------------------------------
(* Spec: two viewports in one host, side by side or one inside the other *)

Layouts ==
    { [pos |-> <<Unit, Unit>>, origin |-> <<Unit, 2 * Unit>>, size |-> <<2 * Unit, Unit>>] }

\* what an inner frame can hand over: no list, one list, or two lists of which
\* the second has a command with a vertex offset
RenderLists ==
    { <<>>,
      <<SrcList(2, 1, <<0>>, <<3>>, FALSE)>>,
      <<SrcList(2, 1, <<0>>, <<3>>, FALSE), SrcList(3, 0, <<0, 1>>, <<1, 2>>, TRUE)>> }

Renders ==
    { [windowHovered |-> hv[1], anyWindowHovered |-> hv[2], anyItemActive |-> hv[3],
       ime |-> m, lists |-> ls] :
         hv \in {<<FALSE, FALSE, FALSE>>, <<TRUE, TRUE, TRUE>>},
         m \in {2}, ls \in RenderLists }

HostTrails ==
    { <<>>,
      <<[Type |-> "MousePos", PosX |-> 5 * Unit, PosY |-> 2 * Unit, Source |-> 0],
        [Type |-> "Key", PosX |-> 564, PosY |-> 1, Source |-> 0]>> }

\* the viewports keep their zoom here: the wheel rests
SessionInputs ==
    { [childHovered |-> h, MouseWheel |-> 0, resetPressed |-> k,
       MousePos |-> p, MouseDelta |-> <<0, 0>>, dragging |-> FALSE] :
         h \in {TRUE}, k \in {TRUE}, p \in {<<2 * Unit, Unit>>} }

Init ==
    /\ current = OuterCtx
    /\ \E flag \in BOOLEAN : ctx = (OuterCtx :> HostContext(flag, <<>>))
    /\ dl = [s \in Sessions |-> EmptyDrawList]
    /\ frame = NoFrame
    /\ \E w \in BOOLEAN :
          sess = [s \in Sessions |->
                    NewSession([DefaultConfig EXCEPT !.extra_window_wrapper = (w = (s = 1))])]
    /\ call = NoCall

Next ==
    \/ \E trail \in HostTrails : NewFrame(trail)
    \/ \E s \in Sessions : \E lay \in Layouts : MayBegin(s) /\ begin(s, lay)
    \/ \E s \in Sessions : \E r \in Renders : MayEnd(s) /\ end_Render(s, r)
    \/ \E s \in Sessions : end_Restore(s)
    \/ \E s \in Sessions : end_Append(s)
    \/ \E s \in Sessions : \E inp \in SessionInputs : end_Zoom(s, inp)
    \/ \E s \in Sessions : MayDestroy(s) /\ destroy(s)

Spec == Init /\ [][Next]_vars

-----------------------------------------------------------------------------
(* Properties of begin() and end() *)

\* the sessions that are constructed and not destroyed
Born == {s \in Sessions : sess[s].pc \notin {"unborn", "dead"}}
InZoomRange(S, v) == S.m_config.zoom_min <= v /\ v <= S.m_config.zoom_max
Clamped(v, lo, hi) == IF v < lo THEN lo ELSE IF v > hi THEN hi ELSE v

\* C1: whenever a viewport is outside begin()/end() -- as constructed, or after
\* an end() call has completed -- its scale and its scale target both lie in
\* [zoom_min, zoom_max], whatever the smoothness and the zoom inputs were.
C1_ZoomRange ==
    \A s \in Born :
        sess[s].pc = "idle" =>
            /\ InZoomRange(sess[s], sess[s].m_scale)
            /\ InZoomRange(sess[s], sess[s].m_scaleTarget)

\* session s has begun and no other session has begun inside it
Innermost(s) ==
    /\ sess[s].pc = "active"
    /\ \A t \in Born \ {s} : sess[t].pc # "idle" => sess[t].begin_ctx # sess[s].m_ctx

\* C2: begin() saves the context current at the call and makes the session's
\* inner context current; while the session is begun and nothing is nested in
\* it the inner context stays current; and the step that completes end()
\* leaves current the context that was current just before the begin().
C2_SaveRestore ==
    [][\A s \in Born :
          /\ (sess[s].pc = "idle" /\ sess'[s].pc = "active") =>
                /\ sess'[s].m_original_ctx = current
                /\ current' = sess'[s].m_ctx
                /\ current' # current
          /\ Innermost(s)' => current' = sess'[s].m_ctx
          /\ (sess[s].pc = "append" /\ sess'[s].pc = "idle") =>
                /\ current' = sess[s].begin_ctx
                /\ sess'[s].m_original_ctx = NullCtx]_vars

\* a nested viewport has completed begin()/end() and the enclosing viewport's
\* inner context is current again
C2_Witness ==
    /\ sess[1].pc = "active" /\ sess[2].pc = "idle"
    /\ 2 \in frame.begun
    /\ sess[2].begin_ctx = sess[1].m_ctx
    /\ current = sess[1].m_ctx
    /\ current # OuterCtx

\* C3: whenever end() is at its loop over the command lists (an AppendDrawData
\* call is about to run, or has run), the inner frame has been rendered and
\* the context saved by begin() -- not the inner one -- is current, so the
\* backend flag AppendDrawData reads is that context's.
C3_EndOrdering ==
    \A s \in Born :
        sess[s].pc \in {"append", "aborted"} =>
            /\ ctx[sess[s].m_ctx].Frame = "rendered"
            /\ current = sess[s].begin_ctx
            /\ current # sess[s].m_ctx
            /\ sess[s].draw_data = ctx[sess[s].m_ctx].DrawData

\* end() of a nested viewport has appended a list while the enclosing
\* viewport's context is current and has another list to append
C3_Witness ==
    /\ sess[2].pc = "append" /\ sess[2].i = 1 /\ Len(sess[2].draw_data) = 2
    /\ sess[1].pc = "active"
    /\ current = sess[1].m_ctx
    /\ Len(dl[2].VtxBuffer) > Len(ChildBackground.VtxBuffer)

\* the case of C8: no smoothing, zoom enabled, the viewport hovered in this
\* call, a wheel movement
InstantZoomCase(S, inp) ==
    /\ S.m_config.zoom_smoothness = 0
    /\ S.m_config.zoom_enabled
    /\ inp.childHovered /\ ~S.m_anyWindowHovered
    /\ inp.MouseWheel # 0

\* scaleTarget + wheel / zoom_divisions, clamped
InstantZoomTarget(S, inp) ==
    Clamped(S.m_scaleTarget + FDiv(inp.MouseWheel, S.m_config.zoom_divisions),
            S.m_config.zoom_min, S.m_config.zoom_max)

\* C8 as stated: in the case above the end() call leaves
\* scale == scaleTarget == clamp(oldTarget + wheel / zoom_divisions).
C8_InstantZoomStated ==
    [][\A s \in Born : \A inp \in ZoomInputs :
          (end_Zoom(s, inp) /\ InstantZoomCase(sess[s], inp)) =>
              /\ sess'[s].m_scale = InstantZoomTarget(sess[s], inp)
              /\ sess'[s].m_scaleTarget = sess'[s].m_scale]_vars

\* C8: in the case above the end() call leaves scale equal to
\* clamp(oldTarget + wheel / zoom_divisions); scaleTarget equals it too unless
\* the reset key is pressed in the same call, and is default_zoom then.
C8_InstantZoom ==
    [][\A s \in Born : \A inp \in ZoomInputs :
          (end_Zoom(s, inp) /\ InstantZoomCase(sess[s], inp)) =>
              /\ sess'[s].m_scale = InstantZoomTarget(sess[s], inp)
              /\ sess'[s].m_scaleTarget =
                    IF inp.resetPressed THEN sess[s].m_config.default_zoom
                    ELSE InstantZoomTarget(sess[s], inp)]_vars

\* without smoothing the wheel has taken the hovered viewport to zoom_max
C8_Witness ==
    /\ sess[1].pc = "idle"
    /\ sess[1].m_config.zoom_smoothness = 0
    /\ sess[1].m_hovered
    /\ sess[1].m_scale = sess[1].m_config.zoom_max
    /\ sess[1].m_scaleTarget = sess[1].m_scale
    /\ ~frame.reset

\* C9: with smoothing, an end() call without wheel movement or reset key that
\* starts with scale # scaleTarget does not widen the gap, does not take the
\* scale across the target, and narrows the gap (such a call is a function of
\* the state, so a call that leaves the gap as it is repeats for ever and the
\* scale never becomes the target).
C9_SmoothConvergence ==
    [][\A s \in Born : \A inp \in ZoomInputs :
          (/\ end_Zoom(s, inp) /\ Quiet(inp)
           /\ sess[s].m_config.zoom_smoothness > 0
           /\ sess[s].m_scale # sess[s].m_scaleTarget) =>
              /\ Abs(sess'[s].m_scaleTarget - sess'[s].m_scale)
                    < Abs(sess[s].m_scaleTarget - sess[s].m_scale)
              /\ (sess[s].m_scaleTarget - sess[s].m_scale)
                    * (sess'[s].m_scaleTarget - sess'[s].m_scale) >= 0]_vars

\* C10: an end() call that sees the reset key leaves scaleTarget at
\* default_zoom, and when no input follows, the scale eventually is
\* default_zoom.
C10_ResetReachesDefault ==
    /\ [](\A s \in Born :
            (frame.reset /\ sess[s].pc = "idle") =>
                sess[s].m_scaleTarget = sess[s].m_config.default_zoom)
    /\ [](frame.quiet => <>(\A s \in Born : sess[s].m_scale = sess[s].m_config.default_zoom))


\* the contexts that exist besides the host's
InnerContexts == DOMAIN ctx \ {OuterCtx}

\* a session owns no context until it has created one, one from then on, and
\* no two sessions own the same
OwnsOneContext ==
    /\ \A s \in Born :
          /\ sess[s].contexts_created <= 1
          /\ (sess[s].m_ctx = NullCtx) <=> (sess[s].contexts_created = 0)
          /\ sess[s].m_ctx # NullCtx => sess[s].m_ctx \in InnerContexts
    /\ \A s, t \in Born : (s # t /\ sess[s].m_ctx # NullCtx) => sess[s].m_ctx # sess[t].m_ctx
    /\ InnerContexts = {sess[s].m_ctx : s \in Born} \ {NullCtx}

\* C15: a session has no inner context until its first begin(); that begin()
\* creates one context; every later step of the session, over any number of
\* frames, keeps that same context and creates none; the destructor destroys
\* the session's context when there is one and nothing otherwise.  At all
\* times the inner contexts that exist are exactly those of the live sessions.
C15_SingleInnerContext ==
    /\ []OwnsOneContext
    /\ [][\A s \in Born :
            /\ (sess'[s].pc # "dead" /\ sess[s].m_ctx = NullCtx /\ sess'[s].m_ctx # NullCtx) =>
                  /\ sess[s].pc = "idle" /\ sess'[s].pc = "active"
                  /\ sess'[s].m_ctx \notin DOMAIN ctx
                  /\ DOMAIN ctx' = DOMAIN ctx \cup {sess'[s].m_ctx}
            /\ (sess'[s].pc # "dead" /\ sess[s].m_ctx # NullCtx) =>
                  /\ sess'[s].m_ctx = sess[s].m_ctx
                  /\ sess'[s].contexts_created = sess[s].contexts_created
            /\ sess'[s].pc = "dead" =>
                  /\ DOMAIN ctx' = DOMAIN ctx \ {sess[s].m_ctx}
                  /\ sess[s].m_ctx = NullCtx => ctx' = ctx]_vars

\* one session is destroyed together with its context; the other is inside
\* begin()/end() again, in the context that its earlier end() left the
\* pointer position in
C15_Witness ==
    /\ sess[1].pc = "dead"
    /\ sess[2].pc = "active"
    /\ sess[2].contexts_created = 1
    /\ DOMAIN ctx = {OuterCtx, sess[2].m_ctx}
    /\ ctx[sess[2].m_ctx].MousePos = <<Unit, -Unit>>


-----------------------------------------------------------------------------
(* SpecOverlap: two viewports whose end() calls may come in either order *)

InitOverlap ==
    /\ current = OuterCtx
    /\ \E flag \in BOOLEAN : ctx = (OuterCtx :> HostContext(flag, <<>>))
    /\ dl = [s \in Sessions |-> EmptyDrawList]
    /\ frame = NoFrame
    /\ sess = [s \in Sessions |-> NewSession(DefaultConfig)]
    /\ call = NoCall

\* after an end() out of order the host's frame has no defined continuation
NextOverlap ==
    \/ \E trail \in HostTrails : ~frame.overlapped /\ NewFrame(trail)
    \/ \E s \in Sessions : \E lay \in Layouts : MayBegin(s) /\ begin(s, lay)
    \/ \E s \in Sessions : \E r \in Renders : MayEndAnywhere(s) /\ end_Render(s, r)
    \/ \E s \in Sessions : end_Restore(s)
    \/ \E s \in Sessions : end_Append(s)
    \/ \E s \in Sessions : \E inp \in SessionInputs : end_Zoom(s, inp)

SpecOverlap == InitOverlap /\ [][NextOverlap]_vars

\* in this frame a began in the host's context and b began inside a
NestedIn(a, b) ==
    /\ {a, b} \subseteq frame.begun
    /\ sess[a].begin_ctx = OuterCtx
    /\ sess[b].begin_ctx = sess[a].m_ctx

\* C16: for A.begin(), B.begin() followed by the end() calls in the nested
\* order, A's inner context is current after B.end() and the host's context
\* after A.end(); followed by A.end() and then B.end(), the host's context is
\* not current after the last call -- A's inner context is.
C16_SequentialNesting ==
    \A a, b \in Born :
        (a # b /\ NestedIn(a, b)) =>
            /\ (~frame.overlapped /\ sess[a].pc = "active" /\ sess[b].pc = "idle") =>
                  current = sess[a].m_ctx
            /\ (~frame.overlapped /\ sess[a].pc = "idle" /\ sess[b].pc = "idle") =>
                  current = OuterCtx
            /\ (frame.overlapped /\ sess[a].pc = "idle" /\ sess[b].pc = "idle") =>
                  /\ current = sess[a].m_ctx
                  /\ current # OuterCtx

\* both end() calls made out of order
C16_Witness ==
    /\ frame.overlapped
    /\ NestedIn(1, 2)
    /\ sess[1].pc = "idle" /\ sess[2].pc = "idle"
    /\ current = sess[1].m_ctx
    /\ ctx[OuterCtx].Frame = "rendered"


\* zoom enabled, the viewport hovered in this call, the wheel moved (line 324)
WheelGate(S, inp) ==
    /\ S.m_config.zoom_enabled
    /\ inp.childHovered /\ ~S.m_anyWindowHovered
    /\ inp.MouseWheel # 0

\* C18: an end() call in which zoom is enabled, the viewport is hovered and
\* the wheel delta is not zero takes scaleTarget to
\* clamp(scaleTarget + delta / zoom_divisions, zoom_min, zoom_max); a call in
\* which one of the three fails leaves scaleTarget to the wheel as it was.
\* (The reset key is the only other input that assigns scaleTarget: a call
\* that sees it ends with default_zoom.)
C18_WheelGating ==
    [][\A s \in Born : \A inp \in ZoomInputs :
          end_Zoom(s, inp) =>
              sess'[s].m_scaleTarget =
                  IF inp.resetPressed THEN sess[s].m_config.default_zoom
                  ELSE IF WheelGate(sess[s], inp) THEN InstantZoomTarget(sess[s], inp)
                  ELSE sess[s].m_scaleTarget]_vars

\* with smoothing, the wheel has taken the target of the hovered viewport
\* down to zoom_min, where the clamp holds it, ahead of the scale
C18_Witness ==
    /\ sess[1].pc = "idle"
    /\ sess[1].m_config.zoom_enabled
    /\ sess[1].m_config.zoom_smoothness = 5 * Unit
    /\ sess[1].m_hovered
    /\ sess[1].m_scaleTarget = sess[1].m_config.zoom_min
    /\ sess[1].m_scale > sess[1].m_scaleTarget
    /\ ~frame.reset

-----------------------------------------------------------------------------
(* SpecPan: one viewport, used frame after frame, dragged and zoomed *)

\* the content is dragged no further than MaxScroll units to the right
MaxScroll == 2

\* a wheel notch is one unit of scale; the scale follows its target at
\* once (smoothness 0) or in one smoothing step (smoothness 1)
PanConfigs ==
    { [DefaultConfig EXCEPT !.zoom_divisions = Unit, !.zoom_smoothness = z] :
        z \in {0, Unit} }

PanRenders ==
    { [windowHovered |-> FALSE, anyWindowHovered |-> a, anyItemActive |-> i,
       ime |-> 1, lists |-> <<SrcList(2, 1, <<0>>, <<3>>, FALSE)>>] :
        a \in BOOLEAN, i \in BOOLEAN }

PanInputs ==
    { [childHovered |-> h, MouseWheel |-> w, resetPressed |-> k,
       MousePos |-> <<0, 0>>, MouseDelta |-> <<Unit, -Unit>>, dragging |-> d] :
         h \in BOOLEAN, w \in {-Unit, 0, Unit}, k \in BOOLEAN, d \in BOOLEAN }

InitPan ==
    /\ current = OuterCtx
    /\ ctx = (OuterCtx :> HostContext(TRUE, <<>>))
    /\ dl = [s \in Sessions |-> EmptyDrawList]
    /\ frame = NoFrame
    /\ \E cfg \in PanConfigs :
          sess = [s \in Sessions |-> IF s = 1 THEN NewSession(cfg) ELSE NoSession]
    /\ call = NoCall

MayDrag(s, inp) ==
    sess[s].pc = "append" /\ (inp.dragging => sess[s].m_scroll[1] < MaxScroll * Unit)

NextPan ==
    \/ NewFrame(<<>>)
    \/ \E s \in Sessions : MayBegin(s) /\ begin(s, ZoomLayout)
    \/ \E s \in Sessions : \E r \in PanRenders : MayEnd(s) /\ end_Render(s, r)
    \/ \E s \in Sessions : end_Restore(s)
    \/ \E s \in Sessions : end_Append(s)
    \/ \E s \in Sessions : \E inp \in PanInputs : MayDrag(s, inp) /\ end_Zoom(s, inp)

SpecPan == InitPan /\ [][NextPan]_vars

\* the viewport as end() has it when it reaches the drag step: hovered flag
\* of this call, wheel, smoothing and reset applied
BeforeDrag(S, inp) ==
    ResetStep(SmoothStep(WheelStep(
        [S EXCEPT !.m_hovered = inp.childHovered /\ ~S.m_anyWindowHovered], inp), inp), inp)

\* the three conditions of the drag: the viewport is hovered, no item of the
\* inner context was active when end() was entered, the button is dragged
DragGate(S, inp) ==
    /\ inp.childHovered /\ ~S.m_anyWindowHovered
    /\ ~S.m_anyItemActive
    /\ inp.dragging

\* C19: in end(), when the viewport is hovered, no inner item was active at
\* the start of end() and the scroll button is being dragged, the drag step
\* adds pointerFrameDelta / scale to scroll (the scale being that of the
\* moment, after this call's zoom); when one of the three conditions fails
\* the drag step leaves scroll as it found it; in both cases it leaves scale
\* and scaleTarget as it found them.
C19_DragPan ==
    [][\A s \in Born : \A inp \in PanInputs :
          end_Zoom(s, inp) =>
              LET B == BeforeDrag(sess[s], inp)
              IN  /\ sess'[s].m_scroll =
                        IF DragGate(sess[s], inp)
                        THEN VAdd(B.m_scroll, VDiv(inp.MouseDelta, B.m_scale))
                        ELSE B.m_scroll
                  /\ sess'[s].m_scale = B.m_scale
                  /\ sess'[s].m_scaleTarget = B.m_scaleTarget]_vars

\* the content has been dragged at a scale other than 1: the scroll is not a
\* whole number of pointer deltas
C19_Witness ==
    /\ sess[1].pc = "idle"
    /\ sess[1].m_hovered /\ ~sess[1].m_anyItemActive
    /\ sess[1].m_scale # Unit
    /\ sess[1].m_scroll[1] > 0
    /\ sess[1].m_scroll[1] % Unit # 0

-----------------------------------------------------------------------------
(* SpecForward: one viewport; every outer frame has its trail of processed
   events and its queue of events still pending *)

ForwardEvents ==
    { [Type |-> "MousePos", PosX |-> 5 * Unit, PosY |-> 2 * Unit, Source |-> 0],
      [Type |-> "Key",      PosX |-> 564,      PosY |-> 1,        Source |-> 0] }

ForwardTrails == SeqsUpTo(ForwardEvents, MaxEvents)

ForwardQueues ==
    { <<>>,
      <<[Type |-> "MouseWheel", PosX |-> 0, PosY |-> Unit, Source |-> 0]>>,
      <<[Type |-> "MousePos", PosX |-> -Unit, PosY |-> 3 * Unit, Source |-> 1]>> }

\* ImGui::NewFrame() of the host: the events it processed are the trail, the
\* events that arrived since (or that it left for a later frame) are pending
HostNewFrame(trail, queue) ==
    /\ \A s \in Sessions : sess[s].pc \in {"unborn", "idle", "dead"}
    /\ frame.begun # {}
    /\ ctx' = [ctx EXCEPT ![OuterCtx].InputEventsTrail = trail,
                          ![OuterCtx].InputEventsQueue = queue]
    /\ dl' = [s \in Sessions |-> EmptyDrawList]
    /\ frame' = [frame EXCEPT !.begun = {}]
    /\ UNCHANGED <<current, sess, call>>

ForwardInput ==
    [childHovered |-> TRUE, MouseWheel |-> 0, resetPressed |-> FALSE,
     MousePos |-> <<2 * Unit, Unit>>, MouseDelta |-> <<0, 0>>, dragging |-> FALSE]

InitForward ==
    /\ current = OuterCtx
    /\ \E trail \in ForwardTrails, queue \in ForwardQueues :
          ctx = (OuterCtx :> [HostContext(TRUE, trail) EXCEPT !.InputEventsQueue = queue])
    /\ dl = [s \in Sessions |-> EmptyDrawList]
    /\ frame = NoFrame
    /\ sess = [s \in Sessions |-> IF s = 1 THEN NewSession(DefaultConfig) ELSE NoSession]
    /\ call = NoCall

NextForward ==
    \/ \E trail \in ForwardTrails, queue \in ForwardQueues : HostNewFrame(trail, queue)
    \/ \E s \in Sessions : \E lay \in Layouts : MayBegin(s) /\ begin(s, lay)
    \/ \E s \in Sessions : MayEnd(s) /\ end_Render(s, ZoomRender)
    \/ \E s \in Sessions : end_Restore(s)
    \/ \E s \in Sessions : end_Append(s)
    \/ \E s \in Sessions : end_Zoom(s, ForwardInput)

SpecForward == InitForward /\ [][NextForward]_vars

\* q holds, in order, one event per event of trail, of the same type and
\* source, and the very same event where it is not a pointer position
CopyOf(q, trail) ==
    /\ Len(q) = Len(trail)
    /\ \A i \in 1..Len(trail) :
          /\ q[i].Type = trail[i].Type
          /\ q[i].Source = trail[i].Source
          /\ trail[i].Type # "MousePos" => q[i] = trail[i]

\* C21: a begin() hands the inner context, in order, one event per event of
\* the outer context's trail (the events the inner frame then processes are
\* a copy of that trail, none of them from the outer pending queue, none left
\* over from an earlier frame), leaves the outer trail and the outer pending
\* queue as they were, and is the only begin() of that viewport in the outer
\* frame: each event of an outer trail reaches the inner context once.
C21_ForwardingSource ==
    [][\A s \in Born : \A lay \in Layouts :
          begin(s, lay) =>
              LET outer == ctx[current]
                  inner == ctx'[sess'[s].m_ctx]
              IN  /\ CopyOf(inner.InputEventsTrail, outer.InputEventsTrail)
                  /\ inner.InputEventsQueue = <<>>
                  /\ ctx'[current].InputEventsTrail = outer.InputEventsTrail
                  /\ ctx'[current].InputEventsQueue = outer.InputEventsQueue
                  /\ s \notin frame.begun /\ s \in frame'.begun]_vars

\* a second frame of the viewport: the outer trail has two events, another
\* event is pending in the outer queue, the inner context has processed two
\* events and its pointer is where the last end() put it
C21_Witness ==
    /\ sess[1].pc = "active"
    /\ ctx[sess[1].m_ctx].MousePos = <<Unit, -Unit>>
    /\ Len(ctx[OuterCtx].InputEventsTrail) = 2
    /\ ctx[OuterCtx].InputEventsTrail[1].Type = "Key"
    /\ Len(ctx[OuterCtx].InputEventsQueue) = 1
    /\ Len(ctx[sess[1].m_ctx].InputEventsTrail) = 2

-----------------------------------------------------------------------------
(* SpecWrapper: one viewport whose caller edits the configuration *)

\* line 193: config() hands out the configuration by reference; the caller
\* assigns extra_window_wrapper, before begin() or between begin() and end()
set_extra_window_wrapper(s, w) ==
    LET S == sess[s]
    IN  /\ S.pc \in {"idle", "active"}
        /\ S.m_config.extra_window_wrapper # w
        /\ sess' = [sess EXCEPT ![s].m_config.extra_window_wrapper = w]
        /\ UNCHANGED <<current, ctx, dl, frame, call>>

InitWrapper ==
    /\ current = OuterCtx
    /\ ctx = (OuterCtx :> HostContext(TRUE, <<>>))
    /\ dl = [s \in Sessions |-> EmptyDrawList]
    /\ frame = NoFrame
    /\ sess = [s \in Sessions |-> IF s = 1 THEN NewSession(DefaultConfig) ELSE NoSession]
    /\ call = NoCall

NextWrapper ==
    \/ \E trail \in HostTrails : NewFrame(trail)
    \/ \E s \in Born : \E w \in BOOLEAN : set_extra_window_wrapper(s, w)
    \/ \E s \in Sessions : \E lay \in Layouts : MayBegin(s) /\ begin(s, lay)
    \/ \E s \in Sessions : \E r \in Renders : MayEnd(s) /\ end_Render(s, r)
    \/ \E s \in Sessions : end_Restore(s)
    \/ \E s \in Sessions : end_Append(s)
    \/ \E s \in Sessions : end_Zoom(s, ForwardInput)

SpecWrapper == InitWrapper /\ [][NextWrapper]_vars

\* the wrapper window of the inner frame is open: begin() called Begin() and
\* no End() has matched it
WrapperOpen(s) == ctx[sess[s].m_ctx].Windows = 1

\* C22: end() closes the inner wrapper window if and only if the preceding
\* begin() opened one: the End() of line 297 is called exactly when the
\* Begin() of line 281 was, whatever the caller did to the configuration in
\* between.
C22_WrapperBalance ==
    [][\A s \in Born : \A r \in Renders :
          end_Render(s, r) =>
              (ctx'[sess[s].m_ctx].Windows = ctx[sess[s].m_ctx].Windows - 1)
                  = WrapperOpen(s)]_vars

-----------------------------------------------------------------------------
(* The capacity end() reserves *)

\* C23: from the reserve() calls of end() to the end of its loop over the
\* command lists, the vertex count and the index count of the outer draw list
\* stay within what was reserved before the first AppendDrawData call; no
\* resize() of that loop has to reallocate.
C23_NoReallocMidMerge ==
    \A s \in Born :
        sess[s].pc \in {"append", "aborted"} =>
            /\ VtxSize(dl[s]) <= sess[s].vtx_reserved
            /\ IdxSize(dl[s]) <= sess[s].idx_reserved

\* two command lists have been merged into a draw list that held the child
\* window's background, and they fill the reserved capacity
C23_Witness ==
    \E s \in Born :
        /\ sess[s].pc = "append"
        /\ Len(sess[s].draw_data) = 2 /\ sess[s].i = 2
        /\ VtxSize(dl[s]) = sess[s].vtx_reserved
        /\ IdxSize(dl[s]) = sess[s].idx_reserved
        /\ VtxSize(dl[s]) > TotalVtxCount(sess[s].draw_data)

-----------------------------------------------------------------------------
(* SpecScale: one viewport zoomed by the wheel while the host sends events *)

ScaleInputs ==
    { [childHovered |-> TRUE, MouseWheel |-> w, resetPressed |-> k,
       MousePos |-> <<2 * Unit, Unit>>, MouseDelta |-> <<Unit, 0>>, dragging |-> d] :
         w \in {-Unit, 0, Unit}, k \in BOOLEAN, d \in BOOLEAN }

InitScale ==
    /\ current = OuterCtx
    /\ ctx = (OuterCtx :> HostContext(TRUE, <<>>))
    /\ dl = [s \in Sessions |-> EmptyDrawList]
    /\ frame = NoFrame
    /\ \E cfg \in PanConfigs :
          sess = [s \in Sessions |-> IF s = 1 THEN NewSession(cfg) ELSE NoSession]
    /\ call = NoCall

NextScale ==
    \/ \E trail \in HostTrails : NewFrame(trail)
    \/ \E s \in Sessions : \E lay \in Layouts : MayBegin(s) /\ begin(s, lay)
    \/ \E s \in Sessions : MayEnd(s) /\ end_Render(s, ZoomRender)
    \/ \E s \in Sessions : end_Restore(s)
    \/ \E s \in Sessions : end_Append(s)
    \/ \E s \in Sessions : \E inp \in ScaleInputs : MayDrag(s, inp) /\ end_Zoom(s, inp)

SpecScale == InitScale /\ [][NextScale]_vars

\* the viewport is between its begin() and the end of end()'s loop over the
\* command lists
InSpan(s) == sess[s].pc \in {"active", "rendered", "append"}

\* end() is past its last AppendDrawData call
AfterCompositing(s) == sess[s].pc = "append" /\ sess[s].i = Len(sess[s].draw_data)

ZoomState(S) == <<S.m_scale, S.m_scaleTarget, S.m_scroll>>

\* what begin() gave the inner context was computed with the scale the
\* viewport has now: the display size, and the events the inner frame took
\* from the outer trail
BegunAtThisScale(s) ==
    LET S == sess[s]
        inner == ctx[S.m_ctx]
        outer == ctx[OuterCtx].InputEventsTrail
    IN  /\ inner.DisplaySize = VDiv(S.m_size, S.m_scale)
        /\ Len(inner.InputEventsTrail) = Len(outer)
        /\ \A k \in 1..Len(outer) :
              outer[k].Type = "MousePos" =>
                  /\ inner.InputEventsTrail[k].PosX =
                        FDiv(outer[k].PosX - S.m_origin[1], S.m_scale)
                  /\ inner.InputEventsTrail[k].PosY =
                        FDiv(outer[k].PosY - S.m_origin[2], S.m_scale)

\* C25: scale, scaleTarget and scroll change only in end(), after the last
\* AppendDrawData call: begin() and every step of end() up to there leave
\* them as they are.  So from begin() to the end of compositing the input
\* remap and the inner display size are those of the scale the geometry is
\* composited with, and the pointer position end() writes into the inner
\* context is computed with the scale end() leaves, the one the next begin()
\* uses.
C25_ZoomStateChangesLast ==
    /\ [](\A s \in Born : InSpan(s) => BegunAtThisScale(s))
    /\ [][\A s \in Born :
            /\ ~AfterCompositing(s) => ZoomState(sess'[s]) = ZoomState(sess[s])
            /\ (sess[s].pc = "append" /\ sess'[s].pc = "append") =>
                  dl'[s] = AppendDrawData(dl[s], sess[s].draw_data[sess'[s].i],
                                          sess[s].m_origin, sess'[s].m_scale,
                                          ctx[current].HasVtxOffset).dl
            /\ \A inp \in ScaleInputs :
                  end_Zoom(s, inp) =>
                      ctx'[sess[s].m_ctx].MousePos =
                          VDiv(VSub(inp.MousePos, sess[s].m_origin), sess'[s].m_scale)]_vars

\* a later frame of a viewport zoomed to 2: the display size is half the
\* viewport's, the pointer event is remapped at scale 2, and the frame's
\* geometry has been composited
C25_Witness ==
    /\ AfterCompositing(1)
    /\ sess[1].m_scale = 2 * Unit
    /\ sess[1].m_scroll # <<0, 0>>
    /\ ctx[sess[1].m_ctx].DisplaySize = <<Unit, Unit \div 2>>
    /\ Len(ctx[sess[1].m_ctx].InputEventsTrail) = 2
    /\ ctx[sess[1].m_ctx].InputEventsTrail[1].PosX = 2 * Unit
    /\ VtxSize(dl[1]) = 4

-----------------------------------------------------------------------------
(* SpecDeref: one viewport whose caller also calls getScreenDelta(), and
   end() without a begin() *)

\* what IO.MouseDelta of the saved context can hold
MouseDeltas == {<<0, 0>>, <<Unit, -Unit>>}

\* what reading through a null pointer can give a build that does not stop
\* there
GarbageDeltas == {<<0, 0>>, <<7 * Unit, 7 * Unit>>}

\* the outcomes of the undefined read: the program stops, or goes on with
\* some value
NullReads ==
    {[stops |-> TRUE, value |-> <<0, 0>>]} \cup
    {[stops |-> FALSE, value |-> v] : v \in GarbageDeltas}

\* line 201: getScreenDelta(), called by the code that owns the viewport,
\* outside begin()/end() or between them.  With m_original_ctx null the read
\* of m_original_ctx->IO is undefined: the program stops, or goes on with
\* some value.
getScreenDelta(s, d, g) ==
    LET S == sess[s]
    IN  /\ S.pc \in {"idle", "active"}
        /\ IF S.m_original_ctx # NullCtx
           THEN /\ call' = [op |-> "getScreenDelta", in_span |-> S.pc = "active",
                            fault |-> "none", stops |-> FALSE,
                            result |-> VDiv(d, S.m_scale)]
                /\ sess' = sess
           ELSE /\ call' = [op |-> "getScreenDelta", in_span |-> S.pc = "active",
                            fault |-> "null", stops |-> g.stops, result |-> g.value]
                /\ sess' = IF g.stops THEN [sess EXCEPT ![s].pc = "aborted"] ELSE sess
        /\ UNCHANGED <<current, ctx, dl, frame>>

\* lines 290-305 when end() is called with no begin() before it: the hover
\* state, End() and Render() are those of the context that is current, the
\* caller's; then line 303 writes through m_original_ctx, which is null.  The
\* behaviour is undefined from there: the program stops at line 303 or after
\* line 304 has made the null context current (reached); it does not
\* come back to the caller in a defined state.
end_Idle(s, r, reached) ==
    LET S == sess[s]
        wrapper == S.m_config.extra_window_wrapper
    IN  /\ S.pc = "idle"
        /\ sess' = [sess EXCEPT ![s] =
              [S EXCEPT !.pc = "aborted",
                        !.m_anyWindowHovered =
                            IF wrapper /\ r.windowHovered THEN FALSE ELSE r.anyWindowHovered,
                        !.m_anyItemActive = r.anyItemActive]]
        /\ ctx' = [ctx EXCEPT ![current] =
              [@ EXCEPT !.Windows = IF wrapper THEN @ - 1 ELSE @,
                        !.Frame = "rendered"]]
        /\ current' = IF reached THEN S.m_original_ctx ELSE current
        /\ call' = [op |-> "end", in_span |-> FALSE,
                    fault |-> IF S.m_original_ctx = NullCtx THEN "null" ELSE "none",
                    stops |-> TRUE, result |-> <<0, 0>>]
        /\ UNCHANGED <<dl, frame>>

InitDeref ==
    /\ current = OuterCtx
    /\ ctx = (OuterCtx :> HostContext(TRUE, <<>>))
    /\ dl = [s \in Sessions |-> EmptyDrawList]
    /\ frame = NoFrame
    /\ sess = [s \in Sessions |-> IF s = 1 THEN NewSession(DefaultConfig) ELSE NoSession]
    /\ call = NoCall

NextDeref ==
    \/ \E trail \in HostTrails : NewFrame(trail)
    \/ \E s \in Sessions : \E lay \in Layouts : MayBegin(s) /\ begin(s, lay)
    \/ \E s \in Born : \E d \in MouseDeltas, g \in NullReads :
          getScreenDelta(s, d, g)
    \/ \E s \in Sessions : \E r \in Renders : MayEnd(s) /\ end_Render(s, r)
    \/ \E s \in Sessions : end_Restore(s)
    \/ \E s \in Sessions : end_Append(s)
    \/ \E s \in Sessions : end_Zoom(s, ForwardInput)
    \/ \E s \in Born : \E r \in Renders, reached \in BOOLEAN : end_Idle(s, r, reached)

SpecDeref == InitDeref /\ [][NextDeref]_vars

\* the viewport is between begin() and line 305 of the matching end()
SavedSpan(s) == sess[s].pc \in {"active", "rendered"}

\* C27: m_original_ctx is null when the viewport is constructed and from line
\* 305 of every end() to the next begin(), and between a begin() and that
\* line it points to a context that exists.  So a getScreenDelta() between
\* begin() and end(), and the end() that follows a begin(), read through a
\* valid pointer (line 201, line 303), and a getScreenDelta() or an end()
\* with the viewport idle reads or writes through the null pointer.
C27_SavedContextValidity ==
    /\ \A s \in Born :
          sess[s].pc # "aborted" =>
              IF SavedSpan(s)
              THEN sess[s].m_original_ctx # NullCtx /\ sess[s].m_original_ctx \in DOMAIN ctx
              ELSE sess[s].m_original_ctx = NullCtx
    /\ call.op \in {"getScreenDelta", "end"} =>
          (call.fault = "null") = ~call.in_span

\* after a begin()/end() pair the idle viewport is asked for the screen
\* delta: the read goes through the pointer end() has cleared
C27_Witness ==
    /\ call.op = "getScreenDelta"
    /\ call.fault = "null" /\ ~call.in_span
    /\ call.result = <<7 * Unit, 7 * Unit>>
    /\ sess[1].pc = "idle"
    /\ sess[1].m_ctx # NullCtx
    /\ sess[1].m_original_ctx = NullCtx

=============================================================================
